---- MODULE Spec2Model ----
(***************************************************************************)
(* The stores of src/src/store/index.ts as state machines: usePlaceStore   *)
(* (Spec, and StepSpec with the two writes of a handler as two steps),     *)
(* the toasts of useUIStore with the clock and the pending timers          *)
(* (ToastSpec), and useAuthStore (AuthSpec).  One variable per field, one  *)
(* action per store action.  Text fields and the search query are          *)
(* sequences of one-letter strings, so that trim(), toLowerCase() and      *)
(* includes() are computed, not assumed.  Identifiers (id, categoryId) are *)
(* opaque strings.  A value of type T | null is <<>> for null and <<v>>    *)
(* for the value v.                                                        *)
(***************************************************************************)
EXTENDS Integers, Sequences, FiniteSets, TLC

VARIABLES places, categories, selectedPlace, filteredPlaces, searchQuery,
          selectedCategoryId,
          pc,                 \* where a place-store handler stands
          toasts, timers, now, \* useUIStore.toasts, pending timeouts, Date.now()
          user, isAuthenticated, isLoading  \* useAuthStore

placeVars == <<places, categories, selectedPlace, filteredPlaces, searchQuery,
               selectedCategoryId>>

toastVars == <<toasts, timers, now>>

authVars == <<user, isAuthenticated, isLoading>>

vars == <<placeVars, pc, toastVars, authVars>>

\* The longest list addPlace is allowed to build in the model.
MaxPlaces == 2

None == <<>>
Some(v) == <<v>>

-----------------------------------------------------------------------------
(* String primitives used by filterPlaces. *)

UpperLetters == <<"A","B","C","D","E","F","G","H","I","J","K","L","M",
                  "N","O","P","Q","R","S","T","U","V","W","X","Y","Z">>
LowerLetters == <<"a","b","c","d","e","f","g","h","i","j","k","l","m",
                  "n","o","p","q","r","s","t","u","v","w","x","y","z">>

CaseMap == [c \in {UpperLetters[i] : i \in 1..26} |->
              LowerLetters[CHOOSE i \in 1..26 : UpperLetters[i] = c]]

\* String.prototype.toLowerCase, on the letters A-Z.
toLowerCase(s) ==
    [i \in 1..Len(s) |-> IF s[i] \in DOMAIN CaseMap THEN CaseMap[s[i]] ELSE s[i]]

WhiteSpace == {" ", "\t", "\n"}

\* String.prototype.trim: drops leading and trailing white space.
trim(s) ==
    LET keep == {i \in 1..Len(s) : s[i] \notin WhiteSpace}
    IN  IF keep = {} THEN <<>>
        ELSE SubSeq(s, CHOOSE i \in keep : \A j \in keep : i <= j,
                       CHOOSE i \in keep : \A j \in keep : i >= j)

\* String.prototype.includes: needle occurs in hay as a contiguous substring.
includes(hay, needle) ==
    \E i \in 1..(Len(hay) - Len(needle) + 1) :
        SubSeq(hay, i, i + Len(needle) - 1) = needle

\* field?.toLowerCase().includes(needle): undefined (falsy) for an absent field.
\* Faulty variant: an absent field counts as a match.
optionalIncludesAbsentMatches(field, needle) ==
    field = None \/ includes(toLowerCase(field[1]), needle)

\* As in the source.
optionalIncludes(field, needle) ==
    field # None /\ includes(toLowerCase(field[1]), needle)

\* The predicate of the text stage (store/index.ts lines 151-163), after three
\* faulty variants of it: the query not lowercased, the fields not lowercased,
\* cuisine not searched.
matchesTextRawQuery(place, query) ==
    \/ includes(toLowerCase(place.name), query)
    \/ includes(toLowerCase(place.address), query)
    \/ optionalIncludes(place.description, query)
    \/ optionalIncludes(place.cuisine, query)

matchesTextRawField(place, query) ==
    \/ includes(place.name, toLowerCase(query))
    \/ includes(place.address, toLowerCase(query))
    \/ optionalIncludes(place.description, toLowerCase(query))
    \/ optionalIncludes(place.cuisine, toLowerCase(query))

matchesTextNoCuisine(place, query) ==
    \/ includes(toLowerCase(place.name), toLowerCase(query))
    \/ includes(toLowerCase(place.address), toLowerCase(query))
    \/ optionalIncludes(place.description, toLowerCase(query))

matchesText(place, query) ==
    \/ includes(toLowerCase(place.name), toLowerCase(query))
    \/ includes(toLowerCase(place.address), toLowerCase(query))
    \/ optionalIncludes(place.description, toLowerCase(query))
    \/ optionalIncludes(place.cuisine, toLowerCase(query))

\* if (searchQuery.trim()) filtered = filtered.filter(...)   (lines 149-165),
\* after two variants: one tests the query without trimming it, one searches
\* for the trimmed query.
textStageTrimmedNeedle(list, query) ==
    IF trim(query) # <<>>
    THEN SelectSeq(list, LAMBDA place : matchesText(place, trim(query)))
    ELSE list

textStageUntrimmedTest(list, query) ==
    IF query # <<>>
    THEN SelectSeq(list, LAMBDA place : matchesText(place, query))
    ELSE list

textStage(list, query) ==
    IF trim(query) # <<>>
    THEN SelectSeq(list, LAMBDA place : matchesText(place, query))
    ELSE list

\* if (selectedCategoryId): null and the empty string are both falsy.
truthyId(id) == id # None /\ id[1] # ""

\* if (selectedCategoryId) filtered = filtered.filter(...)   (lines 168-172),
\* after a faulty variant that compares the place's id.
categoryStageById(list, categoryId) ==
    IF truthyId(categoryId)
    THEN SelectSeq(list, LAMBDA place : place.id = categoryId[1])
    ELSE list

categoryStage(list, categoryId) ==
    IF truthyId(categoryId)
    THEN SelectSeq(list, LAMBDA place : place.categoryId = categoryId[1])
    ELSE list

Reverse(s) == [i \in 1..Len(s) |-> s[Len(s) + 1 - i]]

\* filtered = filtered.filter((place) => place.isActive)     (line 174), after
\* two faulty variants: the stage left out, the survivors in reverse order.
activeStageSkipped(list) == list

activeStageReversed(list) ==
    Reverse(SelectSeq(list, LAMBDA place : place.isActive))

activeStage(list) == SelectSeq(list, LAMBDA place : place.isActive)

\* The value filterPlaces computes from the three inputs it reads (lines 144-174).
filtered(list, query, categoryId) ==
    activeStage(categoryStage(textStage(list, query), categoryId))

-----------------------------------------------------------------------------
(* The store: zustand's get() and set(). *)

\* get(): the current state object.
get ==
    [places |-> places, categories |-> categories,
     selectedPlace |-> selectedPlace, filteredPlaces |-> filteredPlaces,
     searchQuery |-> searchQuery, selectedCategoryId |-> selectedCategoryId]

\* set(partial): the state with the keys of partial replaced.
set(state, partial) ==
    [k \in DOMAIN state \cup DOMAIN partial |->
        IF k \in DOMAIN partial THEN partial[k] ELSE state[k]]

\* The state object st becomes the store's state.
Publish(st) ==
    /\ DOMAIN st = DOMAIN get
    /\ places' = st.places
    /\ categories' = st.categories
    /\ selectedPlace' = st.selectedPlace
    /\ filteredPlaces' = st.filteredPlaces
    /\ searchQuery' = st.searchQuery
    /\ selectedCategoryId' = st.selectedCategoryId
    /\ UNCHANGED <<toastVars, authVars>>

\* Faulty variant: filtered aliases places (line 146), so an in-place reverse
\* of it reaches places.
filterPlacesReversingInPlace(state) ==
    LET r == Reverse(state.places)
    IN  set(state, [places |-> r, filteredPlaces |->
            filtered(r, state.searchQuery, state.selectedCategoryId)])

\* Faulty variant: the category stage is left out.
filterPlacesIgnoringCategory(state) ==
    set(state, [filteredPlaces |->
        activeStage(textStage(state.places, state.searchQuery))])

\* filterPlaces (lines 143-177): one set({ filteredPlaces }).
filterPlaces(state) ==
    set(state, [filteredPlaces |->
        filtered(state.places, state.searchQuery, state.selectedCategoryId)])

setPlaces(state, newPlaces) ==
    filterPlaces(set(state, [places |-> newPlaces]))

setCategories(state, newCategories) ==
    set(state, [categories |-> newCategories])

setSelectedPlace(state, place) ==
    set(state, [selectedPlace |-> place])

\* Faulty variant: the query is stored and the filter is not run again.
setSearchQueryWithoutFilter(state, query) ==
    set(state, [searchQuery |-> query])

setSearchQuery(state, query) ==
    filterPlaces(set(state, [searchQuery |-> query]))

setSelectedCategory(state, categoryId) ==
    filterPlaces(set(state, [selectedCategoryId |-> categoryId]))

addPlace(state, place) ==
    filterPlaces(set(state, [places |-> Append(state.places, place)]))

\* { ...place, ...updates }
merge(place, updates) ==
    [k \in DOMAIN place \cup DOMAIN updates |->
        IF k \in DOMAIN updates THEN updates[k] ELSE place[k]]

\* Faulty variant: only the first place with the id is updated.
updatePlaceFirstOnly(state, id, updates) ==
    filterPlaces(set(state, [places |->
        [i \in 1..Len(state.places) |->
            IF /\ state.places[i].id = id
               /\ \A j \in 1..(i - 1) : state.places[j].id # id
            THEN merge(state.places[i], updates)
            ELSE state.places[i]]]))

updatePlace(state, id, updates) ==
    filterPlaces(set(state, [places |->
        [i \in 1..Len(state.places) |->
            IF state.places[i].id = id
            THEN merge(state.places[i], updates)
            ELSE state.places[i]]]))

\* Variant: removing the selected place also clears the selection.
removePlaceClearingSelection(state, id) ==
    filterPlaces(set(state,
        [places |-> SelectSeq(state.places, LAMBDA place : place.id # id),
         selectedPlace |->
            IF state.selectedPlace # None /\ state.selectedPlace[1].id = id
            THEN None ELSE state.selectedPlace]))

removePlace(state, id) ==
    filterPlaces(set(state, [places |->
        SelectSeq(state.places, LAMBDA place : place.id # id)]))

-----------------------------------------------------------------------------
(* The inputs the actions are called with. *)

Place(id, name, address, description, cuisine, categoryId, isActive) ==
    [id |-> id, name |-> name, address |-> address,
     description |-> description, cuisine |-> cuisine,
     categoryId |-> categoryId, isActive |-> isActive]

\* The three places of the worked example.
HahoeHouse ==
    Place("e1", <<"H","a","h","o","e"," ","H","o","u","s","e">>,
          <<"A","n","d","o","n","g","-","s","i">>, None, None,
          "heritage", TRUE)

JjimdakAlley ==
    Place("e2", <<"J","j","i","m","d","a","k"," ","A","l","l","e","y">>,
          <<"A","n","d","o","n","g","-","s","i">>, None,
          Some(<<"k","o","r","e","a","n">>), "food", TRUE)

ClosedSpot ==
    Place("e3", <<"C","l","o","s","e","d"," ","S","p","o","t">>,
          <<"X">>, None, None, "food", FALSE)

ExamplePlaces == <<HahoeHouse, JjimdakAlley, ClosedSpot>>

\* Short places: a name matching "a" in the other letter case and no optional
\* field; a description as the only matching field; an inactive place that
\* shares its id with the first and matches through its cuisine alone.
PlaceAb == Place("1", <<"A","b">>, <<"c">>, None, None, "food", TRUE)

PlaceDesc ==
    Place("2", <<"c">>, <<"c">>, Some(<<"a"," ","B">>), None, "heritage", TRUE)

PlaceCuisine ==
    Place("1", <<"c">>, <<"C">>, None, Some(<<"A">>), "heritage", FALSE)

PlacePool == {PlaceAb, PlaceDesc, PlaceCuisine}

PlaceLists == {<<>>, ExamplePlaces}

Updates == {[isActive |-> FALSE], [isActive |-> TRUE]}

\* The ids of the places in the list, and one id no place has.
IdInputs == {places[i].id : i \in 1..Len(places)} \cup {"0"}

Queries ==
    {<<>>, <<" ">>, <<" ", "\t">>, <<"a">>, <<"A">>, <<" ", "b">>,
     <<"a","n","d","o","n","g">>}

CategorySelections == {None, Some(""), Some("food"), Some("heritage")}

CategoryLists ==
    {<<>>, <<[id |-> "heritage", name |-> <<"H">>],
             [id |-> "food", name |-> <<"F">>]>>}

\* The selection is cleared, or a place of the list is selected (of the
\* places of the list, the one called PlaceAb).
SelectablePlaces ==
    {None} \cup {Some(places[i]) : i \in {j \in 1..Len(places) : places[j] = PlaceAb}}

-----------------------------------------------------------------------------
(* Initial state (store/index.ts lines 93-98) and the actions. *)

Init ==
    /\ places = <<>>
    /\ categories = <<>>
    /\ selectedPlace = None
    /\ filteredPlaces = <<>>
    /\ searchQuery = <<>>
    /\ selectedCategoryId = None
    /\ pc = "idle"
    /\ toasts = <<>>
    /\ timers = <<>>
    /\ now = 0
    /\ user = None
    /\ isAuthenticated = FALSE
    /\ isLoading = FALSE

\* A call of a handler that runs to its end: the handler's last state is the
\* one the caller sees next.
Returned(st) == Publish(st) /\ pc' = pc

CallSetPlaces == \E list \in PlaceLists : Returned(setPlaces(get, list))

CallSetCategories == \E list \in CategoryLists : Returned(setCategories(get, list))

CallSetSelectedPlace ==
    \E place \in SelectablePlaces : Returned(setSelectedPlace(get, place))

CallSetSearchQuery == \E query \in Queries : Returned(setSearchQuery(get, query))

CallSetSelectedCategory ==
    \E id \in CategorySelections : Returned(setSelectedCategory(get, id))

CallAddPlace ==
    /\ Len(places) < MaxPlaces
    /\ \E place \in PlacePool : Returned(addPlace(get, place))

CallUpdatePlace ==
    \E id \in IdInputs, updates \in Updates : Returned(updatePlace(get, id, updates))

CallRemovePlace == \E id \in IdInputs : Returned(removePlace(get, id))

CallFilterPlaces == Returned(filterPlaces(get))

Next ==
    \/ CallSetPlaces
    \/ CallSetCategories
    \/ CallSetSelectedPlace
    \/ CallSetSearchQuery
    \/ CallSetSelectedCategory
    \/ CallAddPlace
    \/ CallUpdatePlace
    \/ CallRemovePlace
    \/ CallFilterPlaces

Spec == Init /\ [][Next]_vars

-----------------------------------------------------------------------------
(* The handlers that write twice, one store write per step: each set() is   *)
(* a state the subscribers of the store are told of.  After the first      *)
(* write the handler goes on to filterPlaces before anything else runs.    *)

\* set({ places })                                   (line 101)
setPlacesWrite(state, newPlaces) == set(state, [places |-> newPlaces])

\* set({ searchQuery })                              (line 110)
setSearchQueryWrite(state, query) == set(state, [searchQuery |-> query])

\* set({ selectedCategoryId })                       (line 115)
setSelectedCategoryWrite(state, categoryId) ==
    set(state, [selectedCategoryId |-> categoryId])

\* set({ places: [...places, place] })               (lines 120-121)
addPlaceWrite(state, place) ==
    set(state, [places |-> Append(state.places, place)])

\* set({ places: updatedPlaces })                    (lines 126-130)
updatePlaceWrite(state, id, updates) ==
    set(state, [places |->
        [i \in 1..Len(state.places) |->
            IF state.places[i].id = id
            THEN merge(state.places[i], updates)
            ELSE state.places[i]]])

\* set({ places: filteredPlaces })                   (lines 135-139)
removePlaceWrite(state, id) ==
    set(state, [places |-> SelectSeq(state.places, LAMBDA place : place.id # id)])

\* The first write of a handler; get().filterPlaces() is what it does next.
FirstWrite(st) == pc = "idle" /\ Publish(st) /\ pc' = "filterPlaces"

WriteSetPlaces == \E list \in PlaceLists : FirstWrite(setPlacesWrite(get, list))

WriteSetSearchQuery ==
    \E query \in Queries : FirstWrite(setSearchQueryWrite(get, query))

WriteSetSelectedCategory ==
    \E id \in CategorySelections : FirstWrite(setSelectedCategoryWrite(get, id))

WriteAddPlace ==
    /\ Len(places) < MaxPlaces
    /\ \E place \in PlacePool : FirstWrite(addPlaceWrite(get, place))

WriteUpdatePlace ==
    \E id \in IdInputs, updates \in Updates :
        FirstWrite(updatePlaceWrite(get, id, updates))

WriteRemovePlace == \E id \in IdInputs : FirstWrite(removePlaceWrite(get, id))

\* get().filterPlaces(): the second write, and the handler returns.
WriteFilteredPlaces ==
    /\ pc = "filterPlaces"
    /\ Publish(filterPlaces(get))
    /\ pc' = "idle"

StepNext ==
    \/ WriteSetPlaces
    \/ WriteSetSearchQuery
    \/ WriteSetSelectedCategory
    \/ WriteAddPlace
    \/ WriteUpdatePlace
    \/ WriteRemovePlace
    \/ WriteFilteredPlaces

StepSpec == Init /\ [][StepNext]_vars

-----------------------------------------------------------------------------
(* The toasts of useUIStore (store/index.ts lines 276-295), with the clock *)
(* Date.now() reads and the timeouts setTimeout has pending.               *)

\* The last clock reading of the model, its longest toast list and the most
\* timeouts it has pending.
MaxClock == 2
MaxToasts == 2
MaxTimers == 2

Digits == <<"0","1","2","3","4","5","6","7","8","9">>

\* Number.prototype.toString of a clock reading: its decimal digits.
RECURSIVE toString(_)
toString(n) ==
    IF n < 10 THEN <<Digits[n + 1]>>
    ELSE toString(n \div 10) \o <<Digits[(n % 10) + 1]>>

\* toast.duration && toast.duration > 0: false for undefined, 0 and negatives.
hasTimeout(toast) == toast.duration # None /\ toast.duration[1] > 0

\* const id = Date.now().toString(); toasts: [...state.toasts, { ...toast, id }]
addToast(list, toast, clock) ==
    Append(list, merge(toast, [id |-> toString(clock)]))

\* toasts: state.toasts.filter((toast) => toast.id !== id)
removeToast(list, id) == SelectSeq(list, LAMBDA toast : toast.id # id)

\* setTimeout(() => get().removeToast(id), toast.duration): the callback and
\* the earliest clock reading it can run at.
schedule(pending, toast, clock) ==
    IF hasTimeout(toast)
    THEN Append(pending, [id |-> toString(clock), due |-> clock + toast.duration[1]])
    ELSE pending

RemoveAt(s, k) == SubSeq(s, 1, k - 1) \o SubSeq(s, k + 1, Len(s))

Durations == {None, Some(0), Some(-1), Some(1), Some(2)}

\* addToast's argument: a ToastMessage without its id.
ToastInputs ==
    {[type |-> "info", title |-> <<"t">>, description |-> None, duration |-> d] :
        d \in Durations}

ToastIdInputs == {toasts[i].id : i \in 1..Len(toasts)} \cup {<<"x">>}

CallAddToast ==
    /\ Len(toasts) < MaxToasts
    /\ \E toast \in ToastInputs :
          /\ hasTimeout(toast) =>
                (now + toast.duration[1] <= MaxClock /\ Len(timers) < MaxTimers)
          /\ toasts' = addToast(toasts, toast, now)
          /\ timers' = schedule(timers, toast, now)
    /\ UNCHANGED <<now, placeVars, pc, authVars>>

CallRemoveToast ==
    /\ \E id \in ToastIdInputs : toasts' = removeToast(toasts, id)
    /\ UNCHANGED <<timers, now, placeVars, pc, authVars>>

\* A pending timeout whose delay has passed runs its callback.
TimerFires ==
    /\ \E k \in 1..Len(timers) :
          /\ timers[k].due <= now
          /\ toasts' = removeToast(toasts, timers[k].id)
          /\ timers' = RemoveAt(timers, k)
    /\ UNCHANGED <<now, placeVars, pc, authVars>>

\* A millisecond passes.
Tick ==
    /\ now < MaxClock
    /\ now' = now + 1
    /\ UNCHANGED <<toasts, timers, placeVars, pc, authVars>>

ToastNext ==
    \/ CallAddToast
    \/ CallRemoveToast
    \/ TimerFires
    \/ Tick

ToastSpec == Init /\ [][ToastNext]_vars

\* Every timeout whose delay has passed runs, and time goes on.
ToastFairSpec == ToastSpec /\ WF_vars(TimerFires) /\ WF_vars(Tick)

-----------------------------------------------------------------------------
(* useAuthStore (store/index.ts lines 27-67). *)

getAuth ==
    [user |-> user, isAuthenticated |-> isAuthenticated, isLoading |-> isLoading]

PublishAuth(st) ==
    /\ DOMAIN st = DOMAIN getAuth
    /\ user' = st.user
    /\ isAuthenticated' = st.isAuthenticated
    /\ isLoading' = st.isLoading
    /\ UNCHANGED <<placeVars, pc, toastVars>>

\* Faulty variant: the user is stored and isAuthenticated is left as it was.
setUserKeepingFlag(state, newUser) == set(state, [user |-> newUser])

\* set({ user, isAuthenticated: !!user }): an object is truthy, null is not.
setUser(state, newUser) ==
    set(state, [user |-> newUser, isAuthenticated |-> (newUser # None)])

setLoading(state, loading) == set(state, [isLoading |-> loading])

login(state, newUser) ==
    set(state, [user |-> Some(newUser), isAuthenticated |-> TRUE,
                isLoading |-> FALSE])

logout(state) ==
    set(state, [user |-> None, isAuthenticated |-> FALSE, isLoading |-> FALSE])

AuthUsers ==
    {[id |-> i, email |-> e, nickname |-> n, role |-> r] :
        i \in {"u1", "u2", "u3"}, e \in {<<"a">>, <<"b">>, <<"c">>},
        n \in {<<"x">>, <<"y">>, <<"z">>}, r \in {"USER", "ADMIN"}}

CallSetUser ==
    \E u \in {None} \cup {Some(v) : v \in AuthUsers} :
        PublishAuth(setUser(getAuth, u))

CallSetLoading == \E loading \in BOOLEAN : PublishAuth(setLoading(getAuth, loading))

CallLogin == \E u \in AuthUsers : PublishAuth(login(getAuth, u))

CallLogout == PublishAuth(logout(getAuth))

AuthNext ==
    \/ CallSetUser
    \/ CallSetLoading
    \/ CallLogin
    \/ CallLogout

AuthSpec == Init /\ [][AuthNext]_vars

-----------------------------------------------------------------------------
(* Reference notions the properties are stated with.  They are written     *)
(* without trim, toLowerCase, includes or the stages of the filter.        *)

IsBlank(query) == \A i \in 1..Len(query) : query[i] \in WhiteSpace

SameLetter(a, b) ==
    a = b \/ \E i \in 1..26 : {a, b} = {UpperLetters[i], LowerLetters[i]}

SameUpToCase(s, t) ==
    Len(s) = Len(t) /\ \A i \in 1..Len(s) : SameLetter(s[i], t[i])

\* text contains query as a contiguous substring, letter case ignored
ContainsIgnoringCase(text, query) ==
    \E i \in 0..(Len(text) - Len(query)) :
        \A k \in 1..Len(query) : SameLetter(text[i + k], query[k])

FieldContains(field, query) ==
    field # None /\ ContainsIgnoringCase(field[1], query)

TextCriterion(place, query) ==
    \/ IsBlank(query)
    \/ ContainsIgnoringCase(place.name, query)
    \/ ContainsIgnoringCase(place.address, query)
    \/ FieldContains(place.description, query)
    \/ FieldContains(place.cuisine, query)

ToUpper(s) ==
    [i \in 1..Len(s) |->
        IF \E k \in 1..26 : LowerLetters[k] = s[i]
        THEN UpperLetters[CHOOSE k \in 1..26 : LowerLetters[k] = s[i]]
        ELSE s[i]]

\* the place with the letters of its four text fields in upper case
UpperCased(place) ==
    [place EXCEPT !.name = ToUpper(@), !.address = ToUpper(@),
                  !.description = IF @ = None THEN None ELSE Some(ToUpper(@[1])),
                  !.cuisine = IF @ = None THEN None ELSE Some(ToUpper(@[1]))]

\* small is big with some elements left out: same elements, same order
IsSubsequence(small, big) ==
    \E f \in [1..Len(small) -> 1..Len(big)] :
        /\ \A i \in 1..Len(small) : small[i] = big[f[i]]
        /\ \A i, j \in 1..Len(small) : i < j => f[i] < f[j]

NoneSelected(categoryId) == categoryId = None \/ categoryId = Some("")

-----------------------------------------------------------------------------
(* Properties. *)

\* C1: after any sequence of place-store actions, whatever the query and the
\* category, filteredPlaces holds no place whose isActive is false.
InactiveExcluded ==
    \A i \in 1..Len(filteredPlaces) : filteredPlaces[i].isActive = TRUE

\* an inactive place that passes the text and the category stage is in the list
InactiveExcludedWitness ==
    /\ ~IsBlank(searchQuery)
    /\ selectedCategoryId \notin {None, Some("")}
    /\ Len(filteredPlaces) > 0
    /\ \E i \in 1..Len(places) :
          /\ ~places[i].isActive
          /\ places[i].categoryId = selectedCategoryId[1]
          /\ TextCriterion(places[i], searchQuery)

\* C2: initially and after every store action has returned, filteredPlaces is
\* the filter applied to the current places, searchQuery and selectedCategoryId.
FilteredIsCurrent ==
    filteredPlaces = filtered(places, searchQuery, selectedCategoryId)

\* a query was set over two places and exactly one of them is left
FilteredIsCurrentWitness ==
    /\ Len(places) = 2
    /\ Len(filteredPlaces) = 1
    /\ searchQuery = <<"a">>
    /\ selectedCategoryId = None

\* C3 (as claimed): a place is in the result iff the text criterion holds, and
\* selectedCategoryId is null or equals the place's categoryId, and the place
\* is active.
ResultIsConjunctionAsClaimed ==
    filteredPlaces =
        SelectSeq(places, LAMBDA place :
            /\ TextCriterion(place, searchQuery)
            /\ (selectedCategoryId = None \/ place.categoryId = selectedCategoryId[1])
            /\ place.isActive)

\* C3 (amended): the same, where the category criterion also holds for every
\* place when selectedCategoryId is the empty string.
ResultIsConjunction ==
    filteredPlaces =
        SelectSeq(places, LAMBDA place :
            /\ TextCriterion(place, searchQuery)
            /\ (NoneSelected(selectedCategoryId)
                   \/ place.categoryId = selectedCategoryId[1])
            /\ place.isActive)

\* all three criteria decide: a non-blank query, a category, an inactive place
ResultIsConjunctionWitness ==
    /\ ~IsBlank(searchQuery)
    /\ ~NoneSelected(selectedCategoryId)
    /\ Len(places) = 3
    /\ Len(filteredPlaces) = 1
    /\ \E i \in 1..Len(places) : ~places[i].isActive

\* C4: filteredPlaces is a subsequence of places: its elements are elements
\* of places, none is repeated by the filter, and their order is kept.
OrderPreserved == IsSubsequence(filteredPlaces, places)

\* two different survivors, and a place that was left out
OrderPreservedWitness ==
    /\ Len(places) = 3
    /\ Len(filteredPlaces) = 2
    /\ filteredPlaces[1] # filteredPlaces[2]

\* C5: under a blank query (empty or white space only) filteredPlaces is what
\* the empty query gives for the same places and category, and the text stage
\* keeps every place.
BlankQueryIsNoFilter ==
    IsBlank(searchQuery) =>
        /\ filteredPlaces = filtered(places, <<>>, selectedCategoryId)
        /\ textStage(places, searchQuery) = places

\* a query of white space is set and places that do not contain it are listed
BlankQueryIsNoFilterWitness ==
    /\ searchQuery = <<" ", "\t">>
    /\ Len(filteredPlaces) = 2
    /\ \A i \in 1..2 : ~ContainsIgnoringCase(filteredPlaces[i].name, searchQuery)

\* C6: two queries that differ only in letter case give the same result, and
\* whether a query matches a place does not depend on the letter case of the
\* place's text.
CaseInsensitive ==
    /\ \A query \in Queries :
          SameUpToCase(searchQuery, query) =>
            filteredPlaces = filtered(places, query, selectedCategoryId)
    /\ \A i \in 1..Len(places) :
          matchesText(places[i], searchQuery)
            <=> matchesText(UpperCased(places[i]), searchQuery)

\* the query "A" found the name "Ab" ... and "a" would too
CaseInsensitiveWitness ==
    /\ searchQuery = <<"A">>
    /\ Len(filteredPlaces) > 0
    /\ \E i \in 1..Len(filteredPlaces) :
          /\ includes(filteredPlaces[i].name, <<"A">>)
          /\ ~includes(filteredPlaces[i].name, <<"a">>)
    /\ \E i \in 1..Len(places) :
          /\ places[i].isActive
          /\ places[i].description # None
          /\ includes(places[i].description[1], <<"a">>)

\* C7 (as claimed): with the empty query and a category c that is not null,
\* the result is exactly the active places whose categoryId is c; with null
\* the category stage is skipped.
CategoryExactMatchAsClaimed ==
    /\ (searchQuery = <<>> /\ selectedCategoryId # None) =>
          filteredPlaces =
            SelectSeq(places, LAMBDA place :
                place.isActive /\ place.categoryId = selectedCategoryId[1])
    /\ selectedCategoryId = None =>
          filteredPlaces =
            SelectSeq(places, LAMBDA place :
                place.isActive /\ TextCriterion(place, searchQuery))

\* C7 (amended): with the empty query and a category c that is neither null
\* nor the empty string, the result is exactly the active places whose
\* categoryId is c; with null or the empty string the category stage is
\* skipped and places of every category survive.
CategoryExactMatch ==
    /\ (searchQuery = <<>> /\ ~NoneSelected(selectedCategoryId)) =>
          filteredPlaces =
            SelectSeq(places, LAMBDA place :
                place.isActive /\ place.categoryId = selectedCategoryId[1])
    /\ NoneSelected(selectedCategoryId) =>
          filteredPlaces =
            SelectSeq(places, LAMBDA place :
                place.isActive /\ TextCriterion(place, searchQuery))

\* the category food is selected with the empty query, over active places of
\* two categories
CategoryExactMatchWitness ==
    /\ searchQuery = <<>>
    /\ selectedCategoryId = Some("food")
    /\ Len(filteredPlaces) = 1
    /\ \E i \in 1..Len(places) :
          places[i].isActive /\ places[i].categoryId = "heritage"

\* C8: with a non-blank query, a place without description and cuisine passes
\* the text stage iff its name or its address contains the query.
AbsentFieldsNeverMatch ==
    \A i \in 1..Len(places) :
        (/\ places[i].description = None
         /\ places[i].cuisine = None
         /\ ~IsBlank(searchQuery)) =>
            (textStage(<<places[i]>>, searchQuery) = <<places[i]>>
               <=> \/ ContainsIgnoringCase(places[i].name, searchQuery)
                   \/ ContainsIgnoringCase(places[i].address, searchQuery))

\* of two active places without optional fields, the query kept one
AbsentFieldsNeverMatchWitness ==
    /\ searchQuery = <<"a","n","d","o","n","g">>
    /\ selectedCategoryId = None
    /\ Len(filteredPlaces) = 1
    /\ filteredPlaces[1].description = None /\ filteredPlaces[1].cuisine = None
    /\ \E i \in 1..Len(places) :
          /\ places[i].isActive
          /\ places[i].description = None /\ places[i].cuisine = None
          /\ places[i] # filteredPlaces[1]

\* C9: over the three places of the example, the query "andong" with no
\* category gives Hahoe House, Jjimdak Alley, and the empty query with the
\* category food gives Jjimdak Alley.
WorkedExample ==
    /\ (/\ places = ExamplePlaces
        /\ searchQuery = <<"a","n","d","o","n","g">>
        /\ selectedCategoryId = None) =>
          filteredPlaces = <<HahoeHouse, JjimdakAlley>>
    /\ (/\ places = ExamplePlaces
        /\ searchQuery = <<>>
        /\ selectedCategoryId = Some("food")) =>
          filteredPlaces = <<JjimdakAlley>>

WorkedExampleWitness ==
    /\ places = ExamplePlaces
    /\ searchQuery = <<"a","n","d","o","n","g">>
    /\ selectedCategoryId = None
    /\ Len(filteredPlaces) = 2

\* C10: filterPlaces, run on the current inputs with an out-of-date
\* filteredPlaces (empty, or all of places), returns a state that differs
\* from the one it was given in filteredPlaces at most.
FilterKeepsInputs ==
    \A stale \in {<<>>, places} :
        LET before == set(get, [filteredPlaces |-> stale])
            after == filterPlaces(before)
        IN  /\ DOMAIN after = DOMAIN before
            /\ \A k \in DOMAIN before \ {"filteredPlaces"} : after[k] = before[k]

\* filterPlaces has left places out of filteredPlaces and places has them still
FilterKeepsInputsWitness ==
    /\ Len(places) = 3
    /\ Len(filteredPlaces) = 0
    /\ selectedPlace # None
    /\ categories # <<>>
    /\ ~IsBlank(searchQuery)


\* C12: under a non-blank query a place passes the text stage iff one of its
\* four text fields contains the whole query, leading and trailing spaces
\* included, letter case ignored; every place of filteredPlaces does.
WholeQuerySearched ==
    ~IsBlank(searchQuery) =>
        /\ textStage(places, searchQuery) =
             SelectSeq(places, LAMBDA place :
                \/ ContainsIgnoringCase(place.name, searchQuery)
                \/ ContainsIgnoringCase(place.address, searchQuery)
                \/ FieldContains(place.description, searchQuery)
                \/ FieldContains(place.cuisine, searchQuery))
        /\ \A i \in 1..Len(filteredPlaces) :
                \/ ContainsIgnoringCase(filteredPlaces[i].name, searchQuery)
                \/ ContainsIgnoringCase(filteredPlaces[i].address, searchQuery)
                \/ FieldContains(filteredPlaces[i].description, searchQuery)
                \/ FieldContains(filteredPlaces[i].cuisine, searchQuery)

\* the query " b" leaves out an active place whose name contains "b" and keeps
\* the place whose description contains " B"
WholeQuerySearchedWitness ==
    /\ searchQuery = <<" ", "b">>
    /\ selectedCategoryId = None
    /\ \E i \in 1..Len(places) :
          /\ places[i].isActive
          /\ ContainsIgnoringCase(places[i].name, <<"b">>)
          /\ \A j \in 1..Len(filteredPlaces) : filteredPlaces[j] # places[i]
    /\ Len(filteredPlaces) = 1
    /\ FieldContains(filteredPlaces[1].description, <<" ", "b">>)

\* C17: a step that changes selectedPlace is a call of setSelectedPlace; no
\* other action of the place store changes it.
SelectedPlaceKept ==
    [][selectedPlace' = selectedPlace \/ CallSetSelectedPlace]_vars

\* the selected record is no element of places: the place with its id is
\* there with another isActive
SelectedPlaceKeptWitness ==
    /\ selectedPlace = Some(PlaceAb)
    /\ \A i \in 1..Len(places) : places[i] # PlaceAb
    /\ \A i \in 1..Len(filteredPlaces) : filteredPlaces[i] # PlaceAb
    /\ \E i \in 1..Len(places) :
          places[i] = [PlaceAb EXCEPT !.isActive = FALSE]

\* C18: addPlace appends its argument, whatever its id; updatePlace keeps the
\* length, merges the updates into every place with the id and keeps the
\* others (all of them when no place has the id); removePlace leaves out every
\* place with the id and keeps the others in their order.
PlaceEditsKeepOrder ==
    /\ \A place \in PlacePool :
          LET r == addPlace(get, place).places
          IN  /\ Len(r) = Len(places) + 1
              /\ r[Len(r)] = place
              /\ \A i \in 1..Len(places) : r[i] = places[i]
    /\ \A id \in IdInputs, updates \in Updates :
          LET r == updatePlace(get, id, updates).places
          IN  /\ Len(r) = Len(places)
              /\ \A i \in 1..Len(places) :
                    IF places[i].id = id
                    THEN /\ DOMAIN r[i] = DOMAIN places[i]
                         /\ \A k \in DOMAIN updates : r[i][k] = updates[k]
                         /\ \A k \in DOMAIN places[i] \ DOMAIN updates :
                               r[i][k] = places[i][k]
                    ELSE r[i] = places[i]
              /\ (\A i \in 1..Len(places) : places[i].id # id) => r = places
    /\ \A id \in IdInputs :
          LET r == removePlace(get, id).places
          IN  /\ \A i \in 1..Len(r) : r[i].id # id
              /\ IsSubsequence(r, places)
              /\ Len(r) = Len(places)
                           - Cardinality({i \in 1..Len(places) : places[i].id = id})

\* two places with one id, the second of them active through an update
PlaceEditsKeepOrderWitness ==
    /\ Len(places) = 2
    /\ places[1] = PlaceAb
    /\ places[2] = [PlaceCuisine EXCEPT !.isActive = TRUE]


\* C13 (as claimed): every state the store publishes, the one between the
\* two writes of a handler included, has filteredPlaces equal to the filter
\* of its places, searchQuery and selectedCategoryId.
EveryPublishedStateFiltered ==
    filteredPlaces = filtered(places, searchQuery, selectedCategoryId)

\* C13 (amended): a handler writes twice, first the changed input with
\* filteredPlaces as it was, then filteredPlaces alone; the state published by
\* the second write has filteredPlaces equal to the filter of its inputs.
FilteredAfterSecondWrite ==
    /\ [](pc = "idle" =>
            filteredPlaces = filtered(places, searchQuery, selectedCategoryId))
    /\ [][/\ pc = "idle" => (pc' = "filterPlaces" /\ filteredPlaces' = filteredPlaces)
          /\ pc = "filterPlaces" =>
                (pc' = "idle" /\ UNCHANGED <<places, searchQuery, selectedCategoryId>>)
         ]_vars

\* between the two writes: the query is stored and the list is the old one
FilteredAfterSecondWriteWitness ==
    /\ pc = "filterPlaces"
    /\ searchQuery = <<"a">>
    /\ Len(filteredPlaces) = 2
    /\ Len(filtered(places, searchQuery, selectedCategoryId)) = 1


\* the clock reading a toast was added at: the one its id is the digits of
AddedAt(toast) == CHOOSE n \in 0..MaxClock : toString(n) = toast.id

\* the toast is in toasts before the step and no toast with its id after it
Leaves(toast) == \A j \in 1..Len(toasts') : toasts'[j].id # toast.id

\* C11: a toast with a duration greater than 0 that a timer removes is
\* removed no earlier than its duration after it was added.
NoEarlyDismiss ==
    [][Len(timers') < Len(timers) =>
          \A i \in 1..Len(toasts) :
              (hasTimeout(toasts[i]) /\ Leaves(toasts[i])) =>
                  now >= AddedAt(toasts[i]) + toasts[i].duration[1]]_vars

\* C11, its first half: a toast with a duration greater than 0 is removed in
\* the end, when timeouts run.
EventuallyDismissed ==
    \A n \in 0..MaxClock :
        (\E i \in 1..Len(toasts) : toasts[i].id = toString(n) /\ hasTimeout(toasts[i]))
            ~> (\A i \in 1..Len(toasts) : toasts[i].id # toString(n))

\* C14: the toasts of the list have pairwise distinct ids.
ToastIdsDistinct ==
    \A i, j \in 1..Len(toasts) : i # j => toasts[i].id # toasts[j].id

\* C15: a toast without a duration greater than 0 leaves the list in a call
\* of removeToast with its id, and in no other step.
UntimedToastStays ==
    [][\A i \in 1..Len(toasts) :
          (~hasTimeout(toasts[i]) /\ Leaves(toasts[i])) =>
              /\ toasts' = removeToast(toasts, toasts[i].id)
              /\ UNCHANGED <<timers, now>>]_vars


\* C16: isAuthenticated is true iff user is not null, in every state; a call
\* of setLoading leaves user and isAuthenticated as they were; after login
\* and after logout isLoading is false.
AuthConsistent ==
    /\ [](isAuthenticated <=> user # None)
    /\ [][/\ CallSetLoading => UNCHANGED <<user, isAuthenticated>>
          /\ (CallLogin \/ CallLogout) => isLoading' = FALSE]_vars

\* a user is logged in and setLoading(true) was called since
AuthConsistentWitness ==
    /\ user # None
    /\ isAuthenticated
    /\ isLoading

====
